---- MODULE Spec2Model ----
(***************************************************************************)
(* Floorplan geometry extraction: detect_floorplan.py (threshold, thinning *)
(* post-processing, crossing-number classification, two-pass feature point *)
(* detection, clustering, annotation) and the /process-floorplan handler   *)
(* of app.py.                                                              *)
(*                                                                         *)
(* Images are functions from <<row, col>> (0-based, as numpy indexes them) *)
(* to uint8 values.  Points are <<x, y>> pairs as the code builds them.    *)
(***************************************************************************)
EXTENDS Integers, Sequences, FiniteSets, TLC

VARIABLES
    pc,                 \* position of the call under study
    neighborhood,       \* classify_point: its 3x3 argument
    point_type,         \* classify_point: its return value
    skel,               \* detect_corners: the skeleton image
    min_distance,       \* detect_corners: parameter min_distance
    corners,            \* detect_corners: what goodFeaturesToTrack returned
    important_points,   \* detect_corners: the returned list
    file,               \* skeletonize_image: what cv2.imread finds at img_path
    thresh_val,         \* skeletonize_image: parameter thresh_val
    gray,               \* skeletonize_image: the loaded raster
    binary,             \* skeletonize_image: after cv2.threshold
    closed,             \* skeletonize_image: after opening and closing
    thinned,            \* skeletonize_image: what morphological_thinning returned
    skeleton,           \* skeletonize_image: the returned skeleton
    points,             \* cluster_points: argument points
    num_clusters,       \* cluster_points: argument num_clusters
    clustered,          \* cluster_points: its outcome (centres or an exception)
    image,              \* fit_line_to_clustered_points: the BGR image drawn on
    clustered_points,   \* fit_line_to_clustered_points: the centres
    draw,               \* fit_line_to_clustered_points: parameter draw
    colours,            \* the colour of each circle cv2.circle was asked to draw
    request,            \* process_floorplan: the multipart request
    stage_log,          \* process_floorplan: the pipeline stages entered, in order
    hough,              \* process_floorplan: what cv2.HoughLinesP returned
    lines_list,         \* process_floorplan: local lines_list
    responses           \* process_floorplan: the responses sent

skelVars == <<file, thresh_val, gray, binary, closed, thinned, skeleton>>

clusterVars == <<points, num_clusters, clustered>>

drawVars == <<image, clustered_points, draw, colours>>

reqVars == <<request, stage_log, hough, lines_list, responses>>

vars == <<pc, neighborhood, point_type, skel, min_distance, corners,
          important_points, skelVars, clusterVars, drawVars, reqVars>>

\* ------------------------------------------------------------------ bounds
Width == 5
Height == 5
MaxCand == 2
MaxDist == 3
MaxStrokes == 2
MaxDim == 2
MaxThresh == 257
MaxPts == 3
MaxK == 3
MaxCentres == 2
MaxReqPts == 1

\* ------------------------------------------------------- generic helpers
None == "None"

Abs(n) == IF n < 0 THEN -n ELSE n

Min2(a, b) == IF a < b THEN a ELSE b

Max2(a, b) == IF a > b THEN a ELSE b

RECURSIVE SumSeq(_)
SumSeq(s) == IF s = <<>> THEN 0 ELSE Head(s) + SumSeq(Tail(s))

\* --------------------------------------------------------------- images
Shape(img) ==
    LET rows == {p[1] : p \in DOMAIN img}
        cols == {p[2] : p \in DOMAIN img}
    IN  <<Cardinality(rows), Cardinality(cols)>>

\* img[y-1:y+2, x-1:x+2] for an interior (y, x): a 3x3 array indexed from 0
Patch3(img, y, x) ==
    [q \in (0..2) \X (0..2) |-> img[<<y - 1 + q[1], x - 1 + q[2]>>]]

\* an h x w image with every pixel set by f(<<row, col>>)
Grids(h, w, vals) == [(0..(h - 1)) \X (0..(w - 1)) -> vals]

\* ---------------------------------------------------- skeletonize_image
\* a threshold that sends a pixel equal to thresh to 0
threshold_binary_inv_strict(src, thresh, maxval) ==
    [p \in DOMAIN src |-> IF src[p] >= thresh THEN 0 ELSE maxval]

\* cv2.threshold(src, thresh, maxval, cv2.THRESH_BINARY_INV) on uint8:
\* dst = 0 where src > thresh, maxval elsewhere
threshold_binary_inv(src, thresh, maxval) ==
    [p \in DOMAIN src |-> IF src[p] > thresh THEN 0 ELSE maxval]

\* the pixels of img under a 3x3 rectangle centred on p (the part inside img)
Under3x3(img, p) ==
    {q \in DOMAIN img : Abs(q[1] - p[1]) <= 1 /\ Abs(q[2] - p[2]) <= 1}

SetMin(S) == CHOOSE m \in S : \A n \in S : m <= n

SetMax(S) == CHOOSE m \in S : \A n \in S : m >= n

\* erosion and dilation by the 3x3 rectangle; outside the image the default
\* border value never wins the min (erode) or the max (dilate)
erode(img) == [p \in DOMAIN img |-> SetMin({img[q] : q \in Under3x3(img, p)})]

dilate(img) == [p \in DOMAIN img |-> SetMax({img[q] : q \in Under3x3(img, p)})]

\* cv2.morphologyEx(img, cv2.MORPH_OPEN, kernel)
morph_open(img) == dilate(erode(img))

\* cv2.morphologyEx(img, cv2.MORPH_CLOSE, kernel)
morph_close(img) == erode(dilate(img))

\* cv2.resize(src, (w, h), interpolation=cv2.INTER_NEAREST): destination
\* pixel (y, x) takes source pixel (floor(y * sh / h), floor(x * sw / w)),
\* clamped to the last row and column
resize_nearest(src, h, w) ==
    LET sh == Shape(src)[1]
        sw == Shape(src)[2]
    IN  [p \in (0..(h - 1)) \X (0..(w - 1)) |->
            src[<<Min2((p[1] * sh) \div h, sh - 1), Min2((p[2] * sw) \div w, sw - 1)>>]]

\* steps 5 and 6 without the final "skel[skel > 0] = 255"
finish_skeleton_unnormalised(skl, orig_height, orig_width) ==
    IF Shape(skl)[1] # orig_height \/ Shape(skl)[2] # orig_width
    THEN resize_nearest(skl, orig_height, orig_width)
    ELSE skl

\* steps 5 and 6 of skeletonize_image: resize when the shape differs from
\* the raster's, then skel[skel > 0] = 255
finish_skeleton(skl, orig_height, orig_width) ==
    LET sized == IF Shape(skl)[1] # orig_height \/ Shape(skl)[2] # orig_width
                 THEN resize_nearest(skl, orig_height, orig_width)
                 ELSE skl
    IN  [p \in DOMAIN sized |-> IF sized[p] > 0 THEN 255 ELSE sized[p]]

\* ------------------------------------------------------- classify_point
\* a classifier that forgets the wrap-around pair (pixels[7], pixels[0])
classify_point_nowrap(nb) ==
    LET pattern == [q \in DOMAIN nb |-> IF nb[q] = 255 THEN 1 ELSE 0]
        center == pattern[<<1, 1>>]
        neighbors == SumSeq(<<pattern[<<0,0>>], pattern[<<0,1>>], pattern[<<0,2>>],
                              pattern[<<1,0>>], pattern[<<1,1>>], pattern[<<1,2>>],
                              pattern[<<2,0>>], pattern[<<2,1>>], pattern[<<2,2>>]>>)
                     - center
        pixels == <<pattern[<<0,1>>], pattern[<<0,2>>], pattern[<<1,2>>],
                    pattern[<<2,2>>], pattern[<<2,1>>], pattern[<<2,0>>],
                    pattern[<<1,0>>], pattern[<<0,0>>]>>
        transitions == Cardinality({i \in 1..7 : pixels[i] = 0 /\ pixels[i+1] = 1})
    IN  IF center = 0 THEN "none"
        ELSE IF neighbors = 1 THEN "endpoint"
        ELSE IF transitions = 2 /\ neighbors = 2 THEN "corner"
        ELSE IF transitions = 2 /\ neighbors = 3 THEN "t_junction"
        ELSE "none"

classify_point(nb) ==
    LET pattern == [q \in DOMAIN nb |-> IF nb[q] = 255 THEN 1 ELSE 0]
        center == pattern[<<1, 1>>]
        \* np.sum(pattern) - center
        neighbors == SumSeq(<<pattern[<<0,0>>], pattern[<<0,1>>], pattern[<<0,2>>],
                              pattern[<<1,0>>], pattern[<<1,1>>], pattern[<<1,2>>],
                              pattern[<<2,0>>], pattern[<<2,1>>], pattern[<<2,2>>]>>)
                     - center
        \* the 8 neighbours clockwise from the top, then pixels[0] appended
        pixels == <<pattern[<<0,1>>], pattern[<<0,2>>], pattern[<<1,2>>],
                    pattern[<<2,2>>], pattern[<<2,1>>], pattern[<<2,0>>],
                    pattern[<<1,0>>], pattern[<<0,0>>], pattern[<<0,1>>]>>
        transitions == Cardinality({i \in 1..8 : pixels[i] = 0 /\ pixels[i+1] = 1})
    IN  IF center = 0 THEN "none"
        ELSE IF neighbors = 1 THEN "endpoint"
        ELSE IF transitions = 2
             THEN IF neighbors = 2 THEN "corner"
                  ELSE IF neighbors = 3 THEN "t_junction"
                  ELSE "none"
        ELSE "none"

\* ------------------------------------------------------- detect_corners
\* a first loop that appends every candidate with an interior window,
\* whatever its class
RECURSIVE SparsePassUnfiltered(_, _, _, _)
SparsePassUnfiltered(img, h, w, cs) ==
    IF cs = <<>> THEN <<>>
    ELSE LET x == Head(cs)[1]
             y == Head(cs)[2]
             keep == 0 < y /\ y < h - 1 /\ 0 < x /\ x < w - 1
         IN  (IF keep THEN <<<<x, y>>>> ELSE <<>>)
                 \o SparsePassUnfiltered(img, h, w, Tail(cs))

\* The first loop: every candidate with an interior 3x3 window whose class is
\* not none is appended, in candidate order.
RECURSIVE SparsePass(_, _, _, _)
SparsePass(img, h, w, cs) ==
    IF cs = <<>> THEN <<>>
    ELSE LET x == Head(cs)[1]
             y == Head(cs)[2]
             keep == IF 0 < y /\ y < h - 1 /\ 0 < x /\ x < w - 1
                     THEN classify_point(Patch3(img, y, x)) # "none"
                     ELSE FALSE
         IN  (IF keep THEN <<<<x, y>>>> ELSE <<>>) \o SparsePass(img, h, w, Tail(cs))

\* a closeness test that takes one near axis for closeness
AnyCloseEither(pts, x, y, d) ==
    \E i \in 1..Len(pts) : Abs(x - pts[i][1]) < d \/ Abs(y - pts[i][2]) < d

\* a closeness test that never finds a close point
AnyCloseNever(pts, x, y, d) == FALSE

\* any(abs(x - px) < min_distance and abs(y - py) < min_distance for px, py in pts)
AnyClose(pts, x, y, d) ==
    \E i \in 1..Len(pts) : Abs(x - pts[i][1]) < d /\ Abs(y - pts[i][2]) < d

\* a second loop that scans column by column
RECURSIVE ExhaustivePassByColumn(_, _, _, _, _, _)
ExhaustivePassByColumn(img, h, w, d, acc, k) ==
    IF k >= (h - 2) * (w - 2) THEN acc
    ELSE LET x == 1 + (k \div (h - 2))
             y == 1 + (k % (h - 2))
             add == /\ img[<<y, x>>] = 255
                    /\ classify_point(Patch3(img, y, x)) \in {"endpoint", "t_junction"}
                    /\ ~AnyClose(acc, x, y, d)
         IN  ExhaustivePassByColumn(img, h, w, d,
                            IF add THEN Append(acc, <<x, y>>) ELSE acc, k + 1)

\* The second loop, from interior pixel number k on (row-major over
\* range(1, height-1) x range(1, width-1)), extending the list acc.
RECURSIVE ExhaustivePass(_, _, _, _, _, _)
ExhaustivePass(img, h, w, d, acc, k) ==
    IF k >= (h - 2) * (w - 2) THEN acc
    ELSE LET y == 1 + (k \div (w - 2))
             x == 1 + (k % (w - 2))
             add == /\ img[<<y, x>>] = 255
                    /\ classify_point(Patch3(img, y, x)) \in {"endpoint", "t_junction"}
                    /\ ~AnyClose(acc, x, y, d)
         IN  ExhaustivePass(img, h, w, d,
                            IF add THEN Append(acc, <<x, y>>) ELSE acc, k + 1)

detect_corners(img, cs, d) ==
    LET h == Shape(img)[1]
        w == Shape(img)[2]
        \* "if corners is not None"
        first == IF cs.is_none THEN <<>> ELSE SparsePass(img, h, w, cs.pts)
    IN  IF h < 3 \/ w < 3 THEN first
        ELSE ExhaustivePass(img, h, w, d, first, 0)

\* ------------------------------------------------------- cluster_points
\* A centre is the mean of the points of one cluster, kept as the exact
\* fraction (x_num / den, y_num / den).
Mean(pts, members) ==
    [x_num |-> SumSeq([i \in 1..Len(pts) |-> IF i \in members THEN pts[i][1] ELSE 0]),
     y_num |-> SumSeq([i \in 1..Len(pts) |-> IF i \in members THEN pts[i][2] ELSE 0]),
     den |-> Cardinality(members)]

\* KMeans(n_clusters=k).fit(X): n_clusters below 1 is rejected with an
\* exception; otherwise cluster_centers_ has one row per cluster, the mean
\* of the samples labelled with it (every label is used).
KMeansFit(pts, k) ==
    IF k < 1
    THEN {[raised |-> TRUE, error |-> "InvalidParameterError", centers |-> <<>>]}
    ELSE {[raised |-> FALSE, error |-> "",
           centers |-> [j \in 1..k |-> Mean(pts, {i \in 1..Len(pts) : labels[i] = j})]] :
             labels \in {l \in [1..Len(pts) -> 1..k] :
                            \A j \in 1..k : \E i \in 1..Len(pts) : l[i] = j}}

\* the outcomes of cluster_points(points, num_clusters)
cluster_points(pts, n) ==
    IF Len(pts) = 0
    THEN {[raised |-> FALSE, error |-> "", centers |-> <<>>]}
    ELSE KMeansFit(pts, Min2(n, Len(pts)))

\* ----------------------------------------- fit_line_to_clustered_points
\* cv2.cvtColor(skel, cv2.COLOR_GRAY2BGR)
cvtColor_GRAY2BGR(img) == [p \in DOMAIN img |-> <<img[p], img[p], img[p]>>]

\* int(x_c) of a centre coordinate num / den >= 0
IntOf(num, den) == num \div den

Blue == <<255, 0, 0>>
Red == <<0, 0, 255>>
Green == <<0, 255, 0>>
Orange == <<0, 165, 255>>

\* The offsets <<dx, dy>> a filled cv2.circle covers: OpenCV's midpoint loop,
\* which fills rows cy -+ dy over cx-dx..cx+dx and rows cy -+ dx over
\* cx-dy..cx+dy while dx >= dy.
RECURSIVE CircleRows(_, _, _, _, _)
CircleRows(err, dx, dy, plus, minus) ==
    IF dx < dy THEN {}
    ELSE LET rows == {<<ox, oy>> : ox \in (0 - dx)..dx, oy \in {0 - dy, dy}}
                     \cup {<<ox, oy>> : ox \in (0 - dy)..dy, oy \in {0 - dx, dx}}
             err1 == err + plus
             shrink == err1 > 0
         IN  rows \cup CircleRows(IF shrink THEN err1 - minus ELSE err1,
                                  IF shrink THEN dx - 1 ELSE dx,
                                  dy + 1, plus + 2,
                                  IF shrink THEN minus - 2 ELSE minus)

CircleRadius == 3

Disc == CircleRows(0, CircleRadius, 0, 1, 2 * CircleRadius - 1)

\* cv2.circle(image, (x_c, y_c), 3, color, -1), clipped to the image
circle(img, x_c, y_c, color) ==
    [p \in DOMAIN img |->
        IF <<p[2] - x_c, p[1] - y_c>> \in Disc THEN color ELSE img[p]]

\* the colour chosen for one centre on the image as it is now
CentreColour(img, h, w, x_c, y_c) ==
    LET y0 == Max2(0, y_c - 1)
        y1 == Min2(h, y_c + 2)
        x0 == Max2(0, x_c - 1)
        x1 == Min2(w, x_c + 2)
        \* image[y0:y1, x0:x1, 0]
        pt == IF y1 - y0 < 3 \/ x1 - x0 < 3
              THEN "none"
              ELSE classify_point([q \in (0..2) \X (0..2) |->
                                      img[<<y0 + q[1], x0 + q[2]>>][1]])
    IN  CASE pt = "endpoint" -> Blue
          [] pt = "corner" -> Red
          [] pt = "t_junction" -> Green
          [] OTHER -> Orange

\* the loop over the centres: [image, colours] after drawing cs on img
RECURSIVE DrawCentres(_, _, _, _, _)
DrawCentres(img, h, w, cs, cols) ==
    IF cs = <<>> THEN [image |-> img, colours |-> cols]
    ELSE LET x_c == IntOf(Head(cs).x_num, Head(cs).den)
             y_c == IntOf(Head(cs).y_num, Head(cs).den)
             color == CentreColour(img, h, w, x_c, y_c)
         IN  DrawCentres(circle(img, x_c, y_c, color), h, w, Tail(cs),
                         Append(cols, color))

fit_line_to_clustered_points(img, cs, drw) ==
    IF ~drw THEN [image |-> img, colours |-> <<>>]
    ELSE DrawCentres(img, Shape(img)[1], Shape(img)[2], cs, <<>>)

\* -------------------------------------------- detect_straight_walls_hough
\* what the function returns for HoughLinesP's result: the Python list []
\* when it was None, else the ndarray lines.reshape(-1, 4)
detect_straight_walls_hough(found) ==
    IF found.is_none THEN [kind |-> "list", rows |-> <<>>]
    ELSE [kind |-> "ndarray", rows |-> found.segs]

\* ------------------------------------------------------------- app.py
\* A character is its Unicode code point and a string is the sequence of its
\* characters: "a.png" is <<97, 46, 112, 110, 103>>.
\* str.lower() of one character, as runs <<first, last, step, offset>>: every
\* step-th code point from first to last lowers to itself plus offset
LowerRuns ==
    <<<<65, 90, 1, 32>>, <<192, 214, 1, 32>>, <<216, 222, 1, 32>>,
      <<256, 302, 2, 1>>, <<306, 310, 2, 1>>, <<313, 327, 2, 1>>,
      <<330, 374, 2, 1>>, <<376, 376, 1, -121>>, <<377, 381, 2, 1>>,
      <<385, 385, 1, 210>>, <<386, 388, 2, 1>>, <<390, 390, 1, 206>>,
      <<391, 391, 1, 1>>, <<393, 394, 1, 205>>, <<395, 395, 1, 1>>,
      <<398, 398, 1, 79>>, <<399, 399, 1, 202>>, <<400, 400, 1, 203>>,
      <<401, 401, 1, 1>>, <<403, 403, 1, 205>>, <<404, 404, 1, 207>>,
      <<406, 406, 1, 211>>, <<407, 407, 1, 209>>, <<408, 408, 1, 1>>,
      <<412, 412, 1, 211>>, <<413, 413, 1, 213>>, <<415, 415, 1, 214>>,
      <<416, 420, 2, 1>>, <<422, 422, 1, 218>>, <<423, 423, 1, 1>>,
      <<425, 425, 1, 218>>, <<428, 428, 1, 1>>, <<430, 430, 1, 218>>,
      <<431, 431, 1, 1>>, <<433, 434, 1, 217>>, <<435, 437, 2, 1>>,
      <<439, 439, 1, 219>>, <<440, 440, 1, 1>>, <<444, 444, 1, 1>>,
      <<452, 452, 1, 2>>, <<453, 453, 1, 1>>, <<455, 455, 1, 2>>,
      <<456, 456, 1, 1>>, <<458, 458, 1, 2>>, <<459, 475, 2, 1>>,
      <<478, 494, 2, 1>>, <<497, 497, 1, 2>>, <<498, 500, 2, 1>>,
      <<502, 502, 1, -97>>, <<503, 503, 1, -56>>, <<504, 542, 2, 1>>,
      <<544, 544, 1, -130>>, <<546, 562, 2, 1>>, <<570, 570, 1, 10795>>,
      <<571, 571, 1, 1>>, <<573, 573, 1, -163>>, <<574, 574, 1, 10792>>,
      <<577, 577, 1, 1>>, <<579, 579, 1, -195>>, <<580, 580, 1, 69>>,
      <<581, 581, 1, 71>>, <<582, 590, 2, 1>>, <<880, 882, 2, 1>>,
      <<886, 886, 1, 1>>, <<895, 895, 1, 116>>, <<902, 902, 1, 38>>,
      <<904, 906, 1, 37>>, <<908, 908, 1, 64>>, <<910, 911, 1, 63>>,
      <<913, 929, 1, 32>>, <<931, 939, 1, 32>>, <<975, 975, 1, 8>>,
      <<984, 1006, 2, 1>>, <<1012, 1012, 1, -60>>, <<1015, 1015, 1, 1>>,
      <<1017, 1017, 1, -7>>, <<1018, 1018, 1, 1>>, <<1021, 1023, 1, -130>>,
      <<1024, 1039, 1, 80>>, <<1040, 1071, 1, 32>>, <<1120, 1152, 2, 1>>,
      <<1162, 1214, 2, 1>>, <<1216, 1216, 1, 15>>, <<1217, 1229, 2, 1>>,
      <<1232, 1326, 2, 1>>, <<1329, 1366, 1, 48>>, <<4256, 4293, 1, 7264>>,
      <<4295, 4295, 1, 7264>>, <<4301, 4301, 1, 7264>>, <<5024, 5103, 1, 38864>>,
      <<5104, 5109, 1, 8>>, <<7312, 7354, 1, -3008>>, <<7357, 7359, 1, -3008>>,
      <<7680, 7828, 2, 1>>, <<7838, 7838, 1, -7615>>, <<7840, 7934, 2, 1>>,
      <<7944, 7951, 1, -8>>, <<7960, 7965, 1, -8>>, <<7976, 7983, 1, -8>>,
      <<7992, 7999, 1, -8>>, <<8008, 8013, 1, -8>>, <<8025, 8031, 2, -8>>,
      <<8040, 8047, 1, -8>>, <<8072, 8079, 1, -8>>, <<8088, 8095, 1, -8>>,
      <<8104, 8111, 1, -8>>, <<8120, 8121, 1, -8>>, <<8122, 8123, 1, -74>>,
      <<8124, 8124, 1, -9>>, <<8136, 8139, 1, -86>>, <<8140, 8140, 1, -9>>,
      <<8152, 8153, 1, -8>>, <<8154, 8155, 1, -100>>, <<8168, 8169, 1, -8>>,
      <<8170, 8171, 1, -112>>, <<8172, 8172, 1, -7>>, <<8184, 8185, 1, -128>>,
      <<8186, 8187, 1, -126>>, <<8188, 8188, 1, -9>>, <<8486, 8486, 1, -7517>>,
      <<8490, 8490, 1, -8383>>, <<8491, 8491, 1, -8262>>, <<8498, 8498, 1, 28>>,
      <<8544, 8559, 1, 16>>, <<8579, 8579, 1, 1>>, <<9398, 9423, 1, 26>>,
      <<11264, 11311, 1, 48>>, <<11360, 11360, 1, 1>>,
      <<11362, 11362, 1, -10743>>, <<11363, 11363, 1, -3814>>,
      <<11364, 11364, 1, -10727>>, <<11367, 11371, 2, 1>>,
      <<11373, 11373, 1, -10780>>, <<11374, 11374, 1, -10749>>,
      <<11375, 11375, 1, -10783>>, <<11376, 11376, 1, -10782>>,
      <<11378, 11378, 1, 1>>, <<11381, 11381, 1, 1>>,
      <<11390, 11391, 1, -10815>>, <<11392, 11490, 2, 1>>,
      <<11499, 11501, 2, 1>>, <<11506, 11506, 1, 1>>, <<42560, 42604, 2, 1>>,
      <<42624, 42650, 2, 1>>, <<42786, 42798, 2, 1>>, <<42802, 42862, 2, 1>>,
      <<42873, 42875, 2, 1>>, <<42877, 42877, 1, -35332>>,
      <<42878, 42886, 2, 1>>, <<42891, 42891, 1, 1>>,
      <<42893, 42893, 1, -42280>>, <<42896, 42898, 2, 1>>,
      <<42902, 42920, 2, 1>>, <<42922, 42922, 1, -42308>>,
      <<42923, 42923, 1, -42319>>, <<42924, 42924, 1, -42315>>,
      <<42925, 42925, 1, -42305>>, <<42926, 42926, 1, -42308>>,
      <<42928, 42928, 1, -42258>>, <<42929, 42929, 1, -42282>>,
      <<42930, 42930, 1, -42261>>, <<42931, 42931, 1, 928>>,
      <<42932, 42946, 2, 1>>, <<42948, 42948, 1, -48>>,
      <<42949, 42949, 1, -42307>>, <<42950, 42950, 1, -35384>>,
      <<42951, 42953, 2, 1>>, <<42960, 42960, 1, 1>>, <<42966, 42968, 2, 1>>,
      <<42997, 42997, 1, 1>>, <<65313, 65338, 1, 32>>, <<66560, 66599, 1, 40>>,
      <<66736, 66771, 1, 40>>, <<66928, 66938, 1, 39>>, <<66940, 66954, 1, 39>>,
      <<66956, 66962, 1, 39>>, <<66964, 66965, 1, 39>>, <<68736, 68786, 1, 64>>,
      <<71840, 71871, 1, 32>>, <<93760, 93791, 1, 32>>,
      <<125184, 125217, 1, 34>>>>

\* the cased characters that are not case-ignorable, as ranges <<first, last>>
CasedRanges ==
    <<<<65, 90>>, <<97, 122>>, <<170, 170>>, <<181, 181>>, <<186, 186>>,
      <<192, 214>>, <<216, 246>>, <<248, 442>>, <<444, 447>>, <<452, 659>>,
      <<661, 687>>, <<880, 883>>, <<886, 887>>, <<891, 893>>, <<895, 895>>,
      <<902, 902>>, <<904, 906>>, <<908, 908>>, <<910, 929>>, <<931, 1013>>,
      <<1015, 1153>>, <<1162, 1327>>, <<1329, 1366>>, <<1376, 1416>>,
      <<4256, 4293>>, <<4295, 4295>>, <<4301, 4301>>, <<4304, 4346>>,
      <<4349, 4351>>, <<5024, 5109>>, <<5112, 5117>>, <<7296, 7304>>,
      <<7312, 7354>>, <<7357, 7359>>, <<7424, 7467>>, <<7531, 7543>>,
      <<7545, 7578>>, <<7680, 7957>>, <<7960, 7965>>, <<7968, 8005>>,
      <<8008, 8013>>, <<8016, 8023>>, <<8025, 8025>>, <<8027, 8027>>,
      <<8029, 8029>>, <<8031, 8061>>, <<8064, 8116>>, <<8118, 8124>>,
      <<8126, 8126>>, <<8130, 8132>>, <<8134, 8140>>, <<8144, 8147>>,
      <<8150, 8155>>, <<8160, 8172>>, <<8178, 8180>>, <<8182, 8188>>,
      <<8450, 8450>>, <<8455, 8455>>, <<8458, 8467>>, <<8469, 8469>>,
      <<8473, 8477>>, <<8484, 8484>>, <<8486, 8486>>, <<8488, 8488>>,
      <<8490, 8493>>, <<8495, 8500>>, <<8505, 8505>>, <<8508, 8511>>,
      <<8517, 8521>>, <<8526, 8526>>, <<8544, 8575>>, <<8579, 8580>>,
      <<9398, 9449>>, <<11264, 11387>>, <<11390, 11492>>, <<11499, 11502>>,
      <<11506, 11507>>, <<11520, 11557>>, <<11559, 11559>>, <<11565, 11565>>,
      <<42560, 42605>>, <<42624, 42651>>, <<42786, 42863>>, <<42865, 42887>>,
      <<42891, 42894>>, <<42896, 42954>>, <<42960, 42961>>, <<42963, 42963>>,
      <<42965, 42969>>, <<42997, 42998>>, <<43002, 43002>>, <<43824, 43866>>,
      <<43872, 43880>>, <<43888, 43967>>, <<64256, 64262>>, <<64275, 64279>>,
      <<65313, 65338>>, <<65345, 65370>>, <<66560, 66639>>, <<66736, 66771>>,
      <<66776, 66811>>, <<66928, 66938>>, <<66940, 66954>>, <<66956, 66962>>,
      <<66964, 66965>>, <<66967, 66977>>, <<66979, 66993>>, <<66995, 67001>>,
      <<67003, 67004>>, <<68736, 68786>>, <<68800, 68850>>, <<71840, 71903>>,
      <<93760, 93823>>, <<119808, 119892>>, <<119894, 119964>>,
      <<119966, 119967>>, <<119970, 119970>>, <<119973, 119974>>,
      <<119977, 119980>>, <<119982, 119993>>, <<119995, 119995>>,
      <<119997, 120003>>, <<120005, 120069>>, <<120071, 120074>>,
      <<120077, 120084>>, <<120086, 120092>>, <<120094, 120121>>,
      <<120123, 120126>>, <<120128, 120132>>, <<120134, 120134>>,
      <<120138, 120144>>, <<120146, 120485>>, <<120488, 120512>>,
      <<120514, 120538>>, <<120540, 120570>>, <<120572, 120596>>,
      <<120598, 120628>>, <<120630, 120654>>, <<120656, 120686>>,
      <<120688, 120712>>, <<120714, 120744>>, <<120746, 120770>>,
      <<120772, 120779>>, <<122624, 122633>>, <<122635, 122654>>,
      <<125184, 125251>>, <<127280, 127305>>, <<127312, 127337>>,
      <<127344, 127369>>>>

\* the case-ignorable characters, as ranges <<first, last>>
CaseIgnorableRanges ==
    <<<<39, 39>>, <<46, 46>>, <<58, 58>>, <<94, 94>>, <<96, 96>>, <<168, 168>>,
      <<173, 173>>, <<175, 175>>, <<180, 180>>, <<183, 184>>, <<688, 879>>,
      <<884, 885>>, <<890, 890>>, <<900, 901>>, <<903, 903>>, <<1155, 1161>>,
      <<1369, 1369>>, <<1375, 1375>>, <<1425, 1469>>, <<1471, 1471>>,
      <<1473, 1474>>, <<1476, 1477>>, <<1479, 1479>>, <<1524, 1524>>,
      <<1536, 1541>>, <<1552, 1562>>, <<1564, 1564>>, <<1600, 1600>>,
      <<1611, 1631>>, <<1648, 1648>>, <<1750, 1757>>, <<1759, 1768>>,
      <<1770, 1773>>, <<1807, 1807>>, <<1809, 1809>>, <<1840, 1866>>,
      <<1958, 1968>>, <<2027, 2037>>, <<2042, 2042>>, <<2045, 2045>>,
      <<2070, 2093>>, <<2137, 2139>>, <<2184, 2184>>, <<2192, 2193>>,
      <<2200, 2207>>, <<2249, 2306>>, <<2362, 2362>>, <<2364, 2364>>,
      <<2369, 2376>>, <<2381, 2381>>, <<2385, 2391>>, <<2402, 2403>>,
      <<2417, 2417>>, <<2433, 2433>>, <<2492, 2492>>, <<2497, 2500>>,
      <<2509, 2509>>, <<2530, 2531>>, <<2558, 2558>>, <<2561, 2562>>,
      <<2620, 2620>>, <<2625, 2626>>, <<2631, 2632>>, <<2635, 2637>>,
      <<2641, 2641>>, <<2672, 2673>>, <<2677, 2677>>, <<2689, 2690>>,
      <<2748, 2748>>, <<2753, 2757>>, <<2759, 2760>>, <<2765, 2765>>,
      <<2786, 2787>>, <<2810, 2815>>, <<2817, 2817>>, <<2876, 2876>>,
      <<2879, 2879>>, <<2881, 2884>>, <<2893, 2893>>, <<2901, 2902>>,
      <<2914, 2915>>, <<2946, 2946>>, <<3008, 3008>>, <<3021, 3021>>,
      <<3072, 3072>>, <<3076, 3076>>, <<3132, 3132>>, <<3134, 3136>>,
      <<3142, 3144>>, <<3146, 3149>>, <<3157, 3158>>, <<3170, 3171>>,
      <<3201, 3201>>, <<3260, 3260>>, <<3263, 3263>>, <<3270, 3270>>,
      <<3276, 3277>>, <<3298, 3299>>, <<3328, 3329>>, <<3387, 3388>>,
      <<3393, 3396>>, <<3405, 3405>>, <<3426, 3427>>, <<3457, 3457>>,
      <<3530, 3530>>, <<3538, 3540>>, <<3542, 3542>>, <<3633, 3633>>,
      <<3636, 3642>>, <<3654, 3662>>, <<3761, 3761>>, <<3764, 3772>>,
      <<3782, 3782>>, <<3784, 3789>>, <<3864, 3865>>, <<3893, 3893>>,
      <<3895, 3895>>, <<3897, 3897>>, <<3953, 3966>>, <<3968, 3972>>,
      <<3974, 3975>>, <<3981, 3991>>, <<3993, 4028>>, <<4038, 4038>>,
      <<4141, 4144>>, <<4146, 4151>>, <<4153, 4154>>, <<4157, 4158>>,
      <<4184, 4185>>, <<4190, 4192>>, <<4209, 4212>>, <<4226, 4226>>,
      <<4229, 4230>>, <<4237, 4237>>, <<4253, 4253>>, <<4348, 4348>>,
      <<4957, 4959>>, <<5906, 5908>>, <<5938, 5939>>, <<5970, 5971>>,
      <<6002, 6003>>, <<6068, 6069>>, <<6071, 6077>>, <<6086, 6086>>,
      <<6089, 6099>>, <<6103, 6103>>, <<6109, 6109>>, <<6155, 6159>>,
      <<6211, 6211>>, <<6277, 6278>>, <<6313, 6313>>, <<6432, 6434>>,
      <<6439, 6440>>, <<6450, 6450>>, <<6457, 6459>>, <<6679, 6680>>,
      <<6683, 6683>>, <<6742, 6742>>, <<6744, 6750>>, <<6752, 6752>>,
      <<6754, 6754>>, <<6757, 6764>>, <<6771, 6780>>, <<6783, 6783>>,
      <<6823, 6823>>, <<6832, 6862>>, <<6912, 6915>>, <<6964, 6964>>,
      <<6966, 6970>>, <<6972, 6972>>, <<6978, 6978>>, <<7019, 7027>>,
      <<7040, 7041>>, <<7074, 7077>>, <<7080, 7081>>, <<7083, 7085>>,
      <<7142, 7142>>, <<7144, 7145>>, <<7149, 7149>>, <<7151, 7153>>,
      <<7212, 7219>>, <<7222, 7223>>, <<7288, 7293>>, <<7376, 7378>>,
      <<7380, 7392>>, <<7394, 7400>>, <<7405, 7405>>, <<7412, 7412>>,
      <<7416, 7417>>, <<7468, 7530>>, <<7544, 7544>>, <<7579, 7679>>,
      <<8125, 8125>>, <<8127, 8129>>, <<8141, 8143>>, <<8157, 8159>>,
      <<8173, 8175>>, <<8189, 8190>>, <<8203, 8207>>, <<8216, 8217>>,
      <<8228, 8228>>, <<8231, 8231>>, <<8234, 8238>>, <<8288, 8292>>,
      <<8294, 8303>>, <<8305, 8305>>, <<8319, 8319>>, <<8336, 8348>>,
      <<8400, 8432>>, <<11388, 11389>>, <<11503, 11505>>, <<11631, 11631>>,
      <<11647, 11647>>, <<11744, 11775>>, <<11823, 11823>>, <<12293, 12293>>,
      <<12330, 12333>>, <<12337, 12341>>, <<12347, 12347>>, <<12441, 12446>>,
      <<12540, 12542>>, <<40981, 40981>>, <<42232, 42237>>, <<42508, 42508>>,
      <<42607, 42610>>, <<42612, 42621>>, <<42623, 42623>>, <<42652, 42655>>,
      <<42736, 42737>>, <<42752, 42785>>, <<42864, 42864>>, <<42888, 42890>>,
      <<42994, 42996>>, <<43000, 43001>>, <<43010, 43010>>, <<43014, 43014>>,
      <<43019, 43019>>, <<43045, 43046>>, <<43052, 43052>>, <<43204, 43205>>,
      <<43232, 43249>>, <<43263, 43263>>, <<43302, 43309>>, <<43335, 43345>>,
      <<43392, 43394>>, <<43443, 43443>>, <<43446, 43449>>, <<43452, 43453>>,
      <<43471, 43471>>, <<43493, 43494>>, <<43561, 43566>>, <<43569, 43570>>,
      <<43573, 43574>>, <<43587, 43587>>, <<43596, 43596>>, <<43632, 43632>>,
      <<43644, 43644>>, <<43696, 43696>>, <<43698, 43700>>, <<43703, 43704>>,
      <<43710, 43711>>, <<43713, 43713>>, <<43741, 43741>>, <<43756, 43757>>,
      <<43763, 43764>>, <<43766, 43766>>, <<43867, 43871>>, <<43881, 43883>>,
      <<44005, 44005>>, <<44008, 44008>>, <<44013, 44013>>, <<64286, 64286>>,
      <<64434, 64450>>, <<65024, 65039>>, <<65043, 65043>>, <<65056, 65071>>,
      <<65106, 65106>>, <<65109, 65109>>, <<65279, 65279>>, <<65287, 65287>>,
      <<65294, 65294>>, <<65306, 65306>>, <<65342, 65342>>, <<65344, 65344>>,
      <<65392, 65392>>, <<65438, 65439>>, <<65507, 65507>>, <<65529, 65531>>,
      <<66045, 66045>>, <<66272, 66272>>, <<66422, 66426>>, <<67456, 67461>>,
      <<67463, 67504>>, <<67506, 67514>>, <<68097, 68099>>, <<68101, 68102>>,
      <<68108, 68111>>, <<68152, 68154>>, <<68159, 68159>>, <<68325, 68326>>,
      <<68900, 68903>>, <<69291, 69292>>, <<69446, 69456>>, <<69506, 69509>>,
      <<69633, 69633>>, <<69688, 69702>>, <<69744, 69744>>, <<69747, 69748>>,
      <<69759, 69761>>, <<69811, 69814>>, <<69817, 69818>>, <<69821, 69821>>,
      <<69826, 69826>>, <<69837, 69837>>, <<69888, 69890>>, <<69927, 69931>>,
      <<69933, 69940>>, <<70003, 70003>>, <<70016, 70017>>, <<70070, 70078>>,
      <<70089, 70092>>, <<70095, 70095>>, <<70191, 70193>>, <<70196, 70196>>,
      <<70198, 70199>>, <<70206, 70206>>, <<70367, 70367>>, <<70371, 70378>>,
      <<70400, 70401>>, <<70459, 70460>>, <<70464, 70464>>, <<70502, 70508>>,
      <<70512, 70516>>, <<70712, 70719>>, <<70722, 70724>>, <<70726, 70726>>,
      <<70750, 70750>>, <<70835, 70840>>, <<70842, 70842>>, <<70847, 70848>>,
      <<70850, 70851>>, <<71090, 71093>>, <<71100, 71101>>, <<71103, 71104>>,
      <<71132, 71133>>, <<71219, 71226>>, <<71229, 71229>>, <<71231, 71232>>,
      <<71339, 71339>>, <<71341, 71341>>, <<71344, 71349>>, <<71351, 71351>>,
      <<71453, 71455>>, <<71458, 71461>>, <<71463, 71467>>, <<71727, 71735>>,
      <<71737, 71738>>, <<71995, 71996>>, <<71998, 71998>>, <<72003, 72003>>,
      <<72148, 72151>>, <<72154, 72155>>, <<72160, 72160>>, <<72193, 72202>>,
      <<72243, 72248>>, <<72251, 72254>>, <<72263, 72263>>, <<72273, 72278>>,
      <<72281, 72283>>, <<72330, 72342>>, <<72344, 72345>>, <<72752, 72758>>,
      <<72760, 72765>>, <<72767, 72767>>, <<72850, 72871>>, <<72874, 72880>>,
      <<72882, 72883>>, <<72885, 72886>>, <<73009, 73014>>, <<73018, 73018>>,
      <<73020, 73021>>, <<73023, 73029>>, <<73031, 73031>>, <<73104, 73105>>,
      <<73109, 73109>>, <<73111, 73111>>, <<73459, 73460>>, <<78896, 78904>>,
      <<92912, 92916>>, <<92976, 92982>>, <<92992, 92995>>, <<94031, 94031>>,
      <<94095, 94111>>, <<94176, 94177>>, <<94179, 94180>>, <<110576, 110579>>,
      <<110581, 110587>>, <<110589, 110590>>, <<113821, 113822>>,
      <<113824, 113827>>, <<118528, 118573>>, <<118576, 118598>>,
      <<119143, 119145>>, <<119155, 119170>>, <<119173, 119179>>,
      <<119210, 119213>>, <<119362, 119364>>, <<121344, 121398>>,
      <<121403, 121452>>, <<121461, 121461>>, <<121476, 121476>>,
      <<121499, 121503>>, <<121505, 121519>>, <<122880, 122886>>,
      <<122888, 122904>>, <<122907, 122913>>, <<122915, 122916>>,
      <<122918, 122922>>, <<123184, 123197>>, <<123566, 123566>>,
      <<123628, 123631>>, <<125136, 125142>>, <<125252, 125259>>,
      <<127995, 127999>>, <<917505, 917505>>, <<917536, 917631>>,
      <<917760, 917999>>>>

InRanges(c, ranges) ==
    \E i \in 1..Len(ranges) : ranges[i][1] <= c /\ c <= ranges[i][2]

InRun(c, run) == run[1] <= c /\ c <= run[2] /\ (c - run[1]) % run[3] = 0

\* str.lower() of one character out of context; U+0130 (304) is the one
\* character that becomes two, "i" and U+0307
LowerChar(c) ==
    IF c = 304 THEN <<105, 775>>
    ELSE IF \E i \in 1..Len(LowerRuns) : InRun(c, LowerRuns[i])
    THEN <<c + LowerRuns[CHOOSE i \in 1..Len(LowerRuns) : InRun(c, LowerRuns[i])][4]>>
    ELSE <<c>>

\* a capital sigma is final when, skipping case-ignorable characters, a cased
\* character comes before it and none comes after it
FinalSigma(str, i) ==
    LET before == {j \in 1..(i - 1) : ~InRanges(str[j], CaseIgnorableRanges)}
        after == {j \in (i + 1)..Len(str) : ~InRanges(str[j], CaseIgnorableRanges)}
    IN  /\ before # {}
        /\ InRanges(str[SetMax(before)], CasedRanges)
        /\ after = {} \/ ~InRanges(str[SetMin(after)], CasedRanges)

RECURSIVE LowerFrom(_, _)
LowerFrom(str, i) ==
    IF i > Len(str) THEN <<>>
    ELSE (IF str[i] = 931
          THEN (IF FinalSigma(str, i) THEN <<962>> ELSE <<963>>)
          ELSE LowerChar(str[i])) \o LowerFrom(str, i + 1)

\* str.lower() on a sequence of characters; U+03A3 (931) lowers to U+03C2
\* (962) where it is final and to U+03C3 (963) elsewhere
Lower(str) == LowerFrom(str, 1)

\* {'png', 'jpg', 'jpeg', 'bmp', 'tiff'}
ALLOWED_EXTENSIONS ==
    {<<112, 110, 103>>, <<106, 112, 103>>, <<106, 112, 101, 103>>,
     <<98, 109, 112>>, <<116, 105, 102, 102>>}

\* '.' in filename and filename.rsplit('.', 1)[1].lower() in ALLOWED_EXTENSIONS
\* (46 is ".")
allowed_file(filename) ==
    /\ \E i \in 1..Len(filename) : filename[i] = 46
    /\ LET dot == CHOOSE i \in 1..Len(filename) :
                     /\ filename[i] = 46
                     /\ \A j \in (i + 1)..Len(filename) : filename[j] # 46
       IN  Lower(SubSeq(filename, dot + 1, Len(filename))) \in ALLOWED_EXTENSIONS

\* the decimal digits int() accepts: the code point of the digit zero of each
\* block of ten (48 is "0"); the nine that follow it are that block's 1 to 9
Digits ==
    <<48, 1632, 1776, 1984, 2406, 2534, 2662, 2790, 2918, 3046, 3174, 3302,
      3430, 3558, 3664, 3792, 3872, 4160, 4240, 6112, 6160, 6470, 6608, 6784,
      6800, 6992, 7088, 7232, 7248, 42528, 43216, 43264, 43472, 43504, 43600,
      44016, 65296, 66720, 68912, 69734, 69872, 69942, 70096, 70384, 70736,
      70864, 71248, 71360, 71472, 71904, 72016, 72784, 73040, 73120, 92768,
      92864, 93008, 120782, 120792, 120802, 120812, 120822, 123200, 123632,
      125264, 130032>>

IsDigit(c) == \E k \in 1..Len(Digits) : Digits[k] <= c /\ c <= Digits[k] + 9

DigitValue(c) ==
    c - Digits[CHOOSE k \in 1..Len(Digits) : Digits[k] <= c /\ c <= Digits[k] + 9]

\* the characters int() skips at both ends of a string
Whitespace ==
    {9, 10, 11, 12, 13, 32, 133, 160, 5760, 8192, 8193, 8194, 8195, 8196,
      8197, 8198, 8199, 8200, 8201, 8202, 8232, 8233, 8239, 8287, 12288}

Strip(text) ==
    LET inked == {i \in 1..Len(text) : text[i] \notin Whitespace}
    IN  IF inked = {} THEN <<>>
        ELSE SubSeq(text, SetMin(inked), SetMax(inked))

\* the value of digits with underscores between them (95 is "_")
RECURSIVE DecimalValue(_)
DecimalValue(ds) ==
    IF ds = <<>> THEN 0
    ELSE IF ds[Len(ds)] = 95 THEN DecimalValue(SubSeq(ds, 1, Len(ds) - 1))
    ELSE 10 * DecimalValue(SubSeq(ds, 1, Len(ds) - 1)) + DigitValue(ds[Len(ds)])

\* digits from the first one that is not a zero: leading zeros and the
\* underscores among them add nothing to the value
Significant(ds) ==
    LET nonzero == {i \in 1..Len(ds) : ds[i] # 95 /\ DigitValue(ds[i]) # 0}
    IN  IF nonzero = {} THEN <<>>
        ELSE SubSeq(ds, CHOOSE i \in nonzero : \A j \in 1..(i - 1) : j \notin nonzero,
                    Len(ds))

\* sys.int_info.default_max_str_digits: int() raises ValueError for a string
\* of more digits than this
max_str_digits == 4300

\* int(text), base 10: whitespace skipped at both ends, an optional sign (45
\* is "-", 43 is "+"), then decimal digits with single underscores between
\* digits, at most max_str_digits of them (underscores not counted);
\* anything else raises ValueError
ParseInt(text) ==
    LET body == Strip(text)
        signed == body # <<>> /\ body[1] \in {45, 43}
        ds == IF signed THEN Tail(body) ELSE body
        ok == /\ ds # <<>>
              /\ IsDigit(ds[1])
              /\ IsDigit(ds[Len(ds)])
              /\ \A i \in 1..Len(ds) :
                    \/ IsDigit(ds[i])
                    \/ ds[i] = 95 /\ IsDigit(ds[i - 1]) /\ IsDigit(ds[i + 1])
              /\ Cardinality({i \in 1..Len(ds) : ds[i] # 95}) <= max_str_digits
    IN  IF ~ok THEN [ok |-> FALSE, value |-> 0]
        ELSE [ok |-> TRUE,
              value |-> IF signed /\ body[1] = 45
                        THEN 0 - DecimalValue(Significant(ds))
                        ELSE DecimalValue(Significant(ds))]

\* int(request.form.get(name, default))
FormInt(field, default) ==
    IF field.given THEN ParseInt(field.text) ELSE [ok |-> TRUE, value |-> default]

NoPayload == [status |-> "", corners |-> <<>>, clusteredPoints |-> <<>>, lines |-> <<>>]

\* jsonify({"error": message}), code
ErrorResponse(code, message) ==
    [code |-> code, json |-> TRUE, error |-> message, payload |-> NoPayload]

\* an exception no handler catches: the framework's 500 page, not JSON
UnhandledResponse(exception) ==
    [code |-> 500, json |-> FALSE, error |-> exception, payload |-> NoPayload]

\* ------------------------------------------------------ skeleton inputs
Pixels == (0..(Height - 1)) \X (0..(Width - 1))

\* a horizontal or vertical run of foreground pixels inside the image
Strokes ==
    {{<<y, x>> : x \in x0..x1} : y \in 0..(Height - 1),
                                  x0 \in 0..(Width - 1), x1 \in 0..(Width - 1)}
    \cup
    {{<<y, x>> : y \in y0..y1} : x \in 0..(Width - 1),
                                  y0 \in 0..(Height - 1), y1 \in 0..(Height - 1)}

RECURSIVE StrokeUnions(_)
StrokeUnions(n) ==
    IF n = 0 THEN {{}}
    ELSE LET prev == StrokeUnions(n - 1)
         IN  {a \cup s : a \in prev, s \in Strokes}

Skeletons ==
    {[p \in Pixels |-> IF p \in fg THEN 255 ELSE 0] : fg \in StrokeUnions(MaxStrokes)}

\* What goodFeaturesToTrack may hand back after astype(int): None, or up to
\* MaxCand distinct positions <<x, y>>, in any order.  The positions are drawn
\* from every interior pixel and one border pixel for each side of the
\* window test (x = 0, y = 0 and x = width-1, y = height-1).
CandPoints ==
    ((1..(Width - 2)) \X (1..(Height - 2)))
    \cup {<<0, 0>>, <<Width - 1, Height - 1>>}

RECURSIVE CandSeqs(_)
CandSeqs(n) ==
    IF n = 0 THEN {<<>>}
    ELSE LET prev == CandSeqs(n - 1)
         IN  prev \cup {Append(s, c) : s \in {t \in prev : Len(t) = n - 1},
                                       c \in CandPoints}

NoCorners == [is_none |-> TRUE, pts |-> <<>>]

Candidates ==
    {NoCorners} \cup
    {[is_none |-> FALSE, pts |-> s] :
        s \in {t \in CandSeqs(MaxCand) :
                  /\ Len(t) > 0
                  /\ \A i, j \in 1..Len(t) : i # j => t[i] # t[j]}}

\* ---- vocabulary of the claims about detect_corners
FgSet(img) == {p \in DOMAIN img : img[p] = 255}

IsInterior(pt) ==
    0 < pt[1] /\ pt[1] < Width - 1 /\ 0 < pt[2] /\ pt[2] < Height - 1

TagAt(img, pt) == classify_point(Patch3(img, pt[2], pt[1]))

Chebyshev(p, q) == Max2(Abs(p[1] - q[1]), Abs(p[2] - q[2]))

\* p is scanned before q by "for y ...: for x ...:"
ScannedBefore(p, q) == p[2] < q[2] \/ (p[2] = q[2] /\ p[1] < q[1])

\* -------------------------------------------- specification: classifier
CornersIdle ==
    /\ skel = <<>>
    /\ min_distance = 0
    /\ corners = NoCorners
    /\ important_points = <<>>

NoField == [given |-> FALSE, text |-> <<>>]

NotCalled == [called |-> FALSE, is_none |-> FALSE, segs |-> <<>>]

RequestIdle ==
    /\ request = [has_image |-> FALSE, filename |-> <<>>, readable |-> FALSE,
                  thresh_val |-> NoField, clusters |-> NoField]
    /\ stage_log = <<>>
    /\ hough = NotCalled
    /\ lines_list = <<>>
    /\ responses = <<>>

DrawIdle ==
    /\ image = <<>>
    /\ clustered_points = <<>>
    /\ draw = FALSE
    /\ colours = <<>>

NoOutcome == [raised |-> FALSE, error |-> "", centers |-> <<>>]

ClusterIdle ==
    /\ points = <<>>
    /\ num_clusters = 0
    /\ clustered = NoOutcome

SkeletonizeIdle ==
    /\ file = [readable |-> FALSE, img |-> <<>>]
    /\ thresh_val = 0
    /\ gray = <<>>
    /\ binary = <<>>
    /\ closed = <<>>
    /\ thinned = <<>>
    /\ skeleton = <<>>

ClassifyIdle ==
    /\ neighborhood = <<>>
    /\ point_type = None

InitClassify ==
    /\ pc = "classify"
    /\ neighborhood \in [(0..2) \X (0..2) -> {0, 255}]
    /\ point_type = None
    /\ CornersIdle
    /\ SkeletonizeIdle
    /\ ClusterIdle
    /\ DrawIdle
    /\ RequestIdle

ClassifyPoint ==
    /\ pc = "classify"
    /\ point_type' = classify_point(neighborhood)
    /\ pc' = "classified"
    /\ UNCHANGED <<neighborhood, skel, min_distance, corners, important_points,
                   skelVars, clusterVars, drawVars, reqVars>>

NextClassify == ClassifyPoint

SpecClassify == InitClassify /\ [][NextClassify]_vars

\* the eight neighbours clockwise from the top, as <<row, col>> of the window
Ring == <<<<0,1>>, <<0,2>>, <<1,2>>, <<2,2>>, <<2,1>>, <<2,0>>, <<1,0>>, <<0,0>>>>

RingN(nb) == Cardinality({i \in 1..8 : nb[Ring[i]] = 255})

RingT(nb) ==
    Cardinality({i \in 1..8 : nb[Ring[i]] = 0 /\ nb[Ring[(i % 8) + 1]] = 255})

ExpectedTag(nb) ==
    CASE nb[<<1,1>>] = 0 -> "none"
      [] nb[<<1,1>>] # 0 /\ RingN(nb) = 1 -> "endpoint"
      [] nb[<<1,1>>] # 0 /\ RingN(nb) = 2 /\ RingT(nb) = 2 -> "corner"
      [] nb[<<1,1>>] # 0 /\ RingN(nb) = 3 /\ RingT(nb) = 2 -> "t_junction"
      [] OTHER -> "none"

\* C1: on every 3x3 neighbourhood over {0, 255} classify_point returns none
\* when the centre is background; otherwise, with N foreground neighbours and
\* T background->foreground steps clockwise with wrap-around, endpoint when
\* N = 1, corner when T = 2 and N = 2, t_junction when T = 2 and N = 3, and
\* none in every other case.
C1_ClassifyRule ==
    pc = "classified" => point_type = ExpectedTag(neighborhood)

C1_Witness ==
    /\ pc = "classified"
    /\ point_type = "t_junction"
    /\ neighborhood[<<0,1>>] = 255
    /\ neighborhood[<<0,0>>] = 0

\* ------------------------------------- specification: skeletonize_image
\* cv2.imread: None for an unreadable file, else the grayscale raster
Imread ==
    /\ pc = "imread"
    /\ \/ /\ ~file.readable
          /\ pc' = "raised ValueError"
          /\ UNCHANGED gray
       \/ /\ file.readable
          /\ gray' = file.img
          /\ pc' = "threshold"
    /\ UNCHANGED <<neighborhood, point_type, skel, min_distance, corners,
                   important_points, file, thresh_val, binary, closed, thinned,
                   skeleton, clusterVars, drawVars, reqVars>>

Binarize ==
    /\ pc = "threshold"
    /\ binary' = threshold_binary_inv(gray, thresh_val, 255)
    /\ pc' = "morphology"
    /\ UNCHANGED <<neighborhood, point_type, skel, min_distance, corners,
                   important_points, file, thresh_val, gray, closed, thinned,
                   skeleton, clusterVars, drawVars, reqVars>>

Clean ==
    /\ pc = "morphology"
    /\ closed' = morph_close(morph_open(binary))
    /\ pc' = "thinning"
    /\ UNCHANGED <<neighborhood, point_type, skel, min_distance, corners,
                   important_points, file, thresh_val, gray, binary, thinned,
                   skeleton, clusterVars, drawVars, reqVars>>

\* values a uint8 grid handed back by the thinning library may hold
ThinVals == {0, 1, 255}

\* morphological_thinning: the library's grid (unconstrained here), or
\* ImportError when neither library is installed
Thin ==
    /\ pc = "thinning"
    /\ \/ /\ \E h \in 1..MaxDim, w \in 1..MaxDim : thinned' \in Grids(h, w, ThinVals)
          /\ pc' = "resize"
       \/ /\ pc' = "raised ImportError"
          /\ UNCHANGED thinned
    /\ UNCHANGED <<neighborhood, point_type, skel, min_distance, corners,
                   important_points, file, thresh_val, gray, binary, closed,
                   skeleton, clusterVars, drawVars, reqVars>>

Finish ==
    /\ pc = "resize"
    /\ skeleton' = finish_skeleton(thinned, Shape(gray)[1], Shape(gray)[2])
    /\ pc' = "returned"
    /\ UNCHANGED <<neighborhood, point_type, skel, min_distance, corners,
                   important_points, file, thresh_val, gray, binary, closed,
                   thinned, clusterVars, drawVars, reqVars>>

\* rasters of h x w pixels: blank paper, one dark dot at the origin, all ink
Rasters(h, w) ==
    LET px == (0..(h - 1)) \X (0..(w - 1))
    IN  {[p \in px |-> IF p \in ink THEN 0 ELSE 255] : ink \in {{}, {<<0, 0>>}, px}}

InitSkeletonize ==
    /\ pc = "imread"
    /\ file \in {[readable |-> FALSE, img |-> <<>>]} \cup
                {[readable |-> TRUE, img |-> g] :
                    g \in UNION {Rasters(h, w) : h \in 1..MaxDim, w \in 1..MaxDim}}
    /\ thresh_val = 100
    /\ gray = <<>>
    /\ binary = <<>>
    /\ closed = <<>>
    /\ thinned = <<>>
    /\ skeleton = <<>>
    /\ ClassifyIdle
    /\ CornersIdle
    /\ ClusterIdle
    /\ DrawIdle
    /\ RequestIdle

NextSkeletonize == Imread \/ Binarize \/ Clean \/ Thin \/ Finish

SpecSkeletonize == InitSkeletonize /\ [][NextSkeletonize]_vars

\* C5: whatever grid the thinning step returned, the returned skeleton has
\* the height and width of the loaded raster and holds only 0 and 255.
C5_SkeletonShapeAndValues ==
    pc = "returned" =>
        /\ DOMAIN skeleton = DOMAIN gray
        /\ \A p \in DOMAIN skeleton : skeleton[p] \in {0, 255}

\* a thinning result of another shape, holding a value other than 0 and 255
C5_Witness ==
    /\ pc = "returned"
    /\ DOMAIN thinned # DOMAIN gray
    /\ \E p \in DOMAIN thinned : thinned[p] = 1
    /\ \E p \in DOMAIN skeleton : skeleton[p] = 255

\* ---------------------------------------------- specification: threshold
\* one-pixel rasters of every intensity, thresholds on both sides of 0..255
InitThreshold ==
    /\ pc = "threshold"
    /\ file = [readable |-> TRUE, img |-> <<>>]
    /\ gray \in Grids(1, 1, 0..255)
    /\ thresh_val \in (0 - 2)..MaxThresh
    /\ binary = <<>>
    /\ closed = <<>>
    /\ thinned = <<>>
    /\ skeleton = <<>>
    /\ ClassifyIdle
    /\ CornersIdle
    /\ ClusterIdle
    /\ DrawIdle
    /\ RequestIdle

NextThreshold == Binarize

SpecThreshold == InitThreshold /\ [][NextThreshold]_vars

\* C4 as stated: a pixel is marked foreground (255) exactly when its
\* intensity is below the threshold; a pixel equal to it is background.
C4_Original ==
    pc = "morphology" =>
        \A p \in DOMAIN gray :
            /\ binary[p] = 255 <=> gray[p] < thresh_val
            /\ binary[p] = 0 <=> ~(gray[p] < thresh_val)

\* C4 amended: a pixel is marked foreground (255) exactly when its intensity
\* is at most the threshold, background (0) otherwise; a pixel equal to the
\* threshold is foreground.
C4_Binarize ==
    pc = "morphology" =>
        \A p \in DOMAIN gray :
            /\ binary[p] = 255 <=> gray[p] <= thresh_val
            /\ binary[p] = 0 <=> gray[p] > thresh_val
            /\ gray[p] = thresh_val => binary[p] = 255

C4_Witness ==
    /\ pc = "morphology"
    /\ gray[<<0, 0>>] = thresh_val
    /\ binary[<<0, 0>>] = 255

\* ---------------------------------------- specification: cluster_points
PointPool == {<<1, 1>>, <<3, 1>>, <<1, 3>>}

RECURSIVE PointSeqs(_)
PointSeqs(n) ==
    IF n = 0 THEN {<<>>}
    ELSE LET prev == PointSeqs(n - 1)
         IN  prev \cup {Append(s, c) : s \in {t \in prev : Len(t) = n - 1},
                                       c \in PointPool}

InitCluster ==
    /\ pc = "cluster"
    /\ points \in PointSeqs(MaxPts)
    /\ num_clusters \in 0..MaxK
    /\ clustered = NoOutcome
    /\ ClassifyIdle
    /\ CornersIdle
    /\ SkeletonizeIdle
    /\ DrawIdle
    /\ RequestIdle

ClusterPoints ==
    /\ pc = "cluster"
    /\ clustered' \in cluster_points(points, num_clusters)
    /\ pc' = "clustered"
    /\ UNCHANGED <<neighborhood, point_type, skel, min_distance, corners,
                   important_points, skelVars, points, num_clusters, drawVars,
                   reqVars>>

NextCluster == ClusterPoints

SpecCluster == InitCluster /\ [][NextCluster]_vars

\* C2: for every sequence of points and every non-negative k,
\* cluster_points returns, without raising, exactly min(k, len(points))
\* centres; the empty sequence gives the empty sequence.
C2_ClusterCount ==
    pc = "clustered" =>
        /\ ~clustered.raised
        /\ Len(clustered.centers) = Min2(num_clusters, Len(points))

\* ------------------------- specification: fit_line_to_clustered_points
\* centres at the selector's pixel positions and one between pixels
CentrePool ==
    {[x_num |-> c[1], y_num |-> c[2], den |-> 1] : c \in CandPoints}
    \cup {[x_num |-> 3, y_num |-> 5, den |-> 2]}

RECURSIVE CentreSeqs(_)
CentreSeqs(n) ==
    IF n = 0 THEN {<<>>}
    ELSE LET prev == CentreSeqs(n - 1)
         IN  prev \cup {Append(s, c) : s \in {t \in prev : Len(t) = n - 1},
                                       c \in CentrePool}

InitAnnotate ==
    /\ pc = "annotate"
    /\ skel \in Skeletons
    /\ image = cvtColor_GRAY2BGR(skel)
    /\ clustered_points \in CentreSeqs(MaxCentres)
    /\ draw \in BOOLEAN
    /\ colours = <<>>
    /\ min_distance = 0
    /\ corners = NoCorners
    /\ important_points = <<>>
    /\ ClassifyIdle
    /\ SkeletonizeIdle
    /\ ClusterIdle
    /\ RequestIdle

FitLineToClusteredPoints ==
    /\ pc = "annotate"
    /\ LET out == fit_line_to_clustered_points(image, clustered_points, draw)
       IN  /\ image' = out.image
           /\ colours' = out.colours
    /\ pc' = "annotated"
    /\ UNCHANGED <<neighborhood, point_type, skel, min_distance, corners,
                   important_points, skelVars, clusterVars, clustered_points, draw,
                   reqVars>>

NextAnnotate == FitLineToClusteredPoints

SpecAnnotate == InitAnnotate /\ [][NextAnnotate]_vars

\* the colour the skeleton itself gives a centre
SkeletonColour(c) ==
    LET x_c == c.x_num \div c.den
        y_c == c.y_num \div c.den
        tag == IF IsInterior(<<x_c, y_c>>) THEN TagAt(skel, <<x_c, y_c>>) ELSE "none"
    IN  CASE tag = "endpoint" -> Blue
          [] tag = "corner" -> Red
          [] tag = "t_junction" -> Green
          [] OTHER -> Orange

\* C10: the colour drawn for a centre depends only on the skeleton's 3x3
\* neighbourhood at the centre (truncated coordinates; a window clipped by the
\* border gives the default colour), so circles drawn earlier never change
\* the colour of a later centre.
C10_ColourFromSkeleton ==
    pc = "annotated" /\ draw =>
        /\ Len(colours) = Len(clustered_points)
        /\ \A i \in 1..Len(colours) : colours[i] = SkeletonColour(clustered_points[i])

\* ------------------------------------- specification: process_floorplan
\* "", "plan", "a.png", "a.PNG", "a.b.Jpeg", "a.png.exe", "a.T" U+0130 "FF",
\* "a.P" U+03A3 (the final sigma), "a."
Filenames ==
    {<<>>,
     <<112, 108, 97, 110>>,
     <<97, 46, 112, 110, 103>>,
     <<97, 46, 80, 78, 71>>,
     <<97, 46, 98, 46, 74, 112, 101, 103>>,
     <<97, 46, 112, 110, 103, 46, 101, 120, 101>>,
     <<97, 46, 84, 304, 70, 70>>,
     <<97, 46, 80, 931>>,
     <<97, 46>>}

\* absent, "0", "2", " 2\n", "1_0", U+0967 (a Devanagari 1), U+001C "2" (a
\* separator int() does not skip), "ab", and "0" repeated once more than
\* max_str_digits
FormTexts ==
    {NoField,
     [given |-> TRUE, text |-> [i \in 1..(max_str_digits + 1) |-> 48]],
     [given |-> TRUE, text |-> <<48>>],
     [given |-> TRUE, text |-> <<50>>],
     [given |-> TRUE, text |-> <<32, 50, 10>>],
     [given |-> TRUE, text |-> <<49, 95, 48>>],
     [given |-> TRUE, text |-> <<2407>>],
     [given |-> TRUE, text |-> <<28, 50>>],
     [given |-> TRUE, text |-> <<97, 98>>]}

\* results cv2.HoughLinesP may return: None, or rows of x1, y1, x2, y2
HoughResults ==
    {[called |-> TRUE, is_none |-> TRUE, segs |-> <<>>],
     [called |-> TRUE, is_none |-> FALSE, segs |-> <<<<1, 1, 3, 1>>>>]}

InitRequest ==
    /\ pc = "received"
    /\ request \in [has_image : BOOLEAN, filename : Filenames, readable : BOOLEAN,
                     thresh_val : FormTexts, clusters : FormTexts]
    /\ stage_log = <<>>
    /\ hough = NotCalled
    /\ lines_list = <<>>
    /\ responses = <<>>
    /\ ClassifyIdle
    /\ CornersIdle
    /\ SkeletonizeIdle
    /\ ClusterIdle
    /\ DrawIdle

Reply(r) ==
    /\ responses' = Append(responses, r)
    /\ pc' = "responded"

notReq == <<neighborhood, point_type, skel, min_distance, corners,
            important_points, skelVars, drawVars>>

\* the three checks on the upload
CheckUpload ==
    /\ pc = "received"
    /\ \/ /\ ~request.has_image
          /\ Reply(ErrorResponse(400, "No file part named 'image' in request"))
       \/ /\ request.has_image
          /\ request.filename = <<>>
          /\ Reply(ErrorResponse(400, "No selected file"))
       \/ /\ request.has_image
          /\ request.filename # <<>>
          /\ ~allowed_file(request.filename)
          /\ Reply(ErrorResponse(400, "Unsupported file extension"))
       \/ /\ request.has_image
          /\ request.filename # <<>>
          /\ allowed_file(request.filename)
          /\ pc' = "parse"
          /\ UNCHANGED responses
    /\ UNCHANGED <<notReq, clusterVars, request, stage_log, hough, lines_list>>

\* file.save(filepath), thresh_val = int(...), clusters = int(...): all
\* outside every try block. The save may fail (OSError); after a save that
\* worked a form text int() rejects raises ValueError
ParseParams ==
    /\ pc = "parse"
    /\ LET t == FormInt(request.thresh_val, 100)
           c == FormInt(request.clusters, 20)
       IN  \/ /\ Reply(UnhandledResponse("OSError"))
              /\ UNCHANGED <<thresh_val, num_clusters>>
           \/ /\ ~t.ok \/ ~c.ok
              /\ Reply(UnhandledResponse("ValueError"))
              /\ UNCHANGED <<thresh_val, num_clusters>>
           \/ /\ t.ok /\ c.ok
              /\ thresh_val' = t.value
              /\ num_clusters' = c.value
              /\ pc' = "skeletonize"
              /\ UNCHANGED responses
    /\ UNCHANGED <<neighborhood, point_type, skel, min_distance, corners,
                   important_points, file, gray, binary, closed, thinned, skeleton,
                   points, clustered, drawVars, request, stage_log, hough,
                   lines_list>>

\* 1. skeletonize_image raises for a file imread cannot decode, and may
\* raise inside the libraries; otherwise the skeleton is kept
StageSkeletonize ==
    /\ pc = "skeletonize"
    /\ stage_log' = Append(stage_log, "skeletonize")
    /\ \/ Reply(ErrorResponse(500, "Skeletonization failed"))
       \/ /\ request.readable
          /\ pc' = "detect_corners"
          /\ UNCHANGED responses
    /\ UNCHANGED <<notReq, clusterVars, request, hough, lines_list>>

\* 2. detect_corners: a list of points, or an exception of cv2
StageDetectCorners ==
    /\ pc = "detect_corners"
    /\ stage_log' = Append(stage_log, "detect_corners")
    /\ \/ /\ Reply(ErrorResponse(500, "Corner detection failed"))
          /\ UNCHANGED points
       \/ /\ points' \in PointSeqs(MaxReqPts)
          /\ pc' = "cluster"
          /\ UNCHANGED responses
    /\ UNCHANGED <<notReq, num_clusters, clustered, request, hough, lines_list>>

\* 3. cluster_points(corners, num_clusters=clusters): the centres, the
\* exception KMeans raises for the arguments, or any other exception of the
\* library
StageCluster ==
    /\ pc = "cluster"
    /\ stage_log' = Append(stage_log, "cluster")
    /\ \/ /\ Reply(ErrorResponse(500, "Clustering failed"))
          /\ UNCHANGED clustered
       \/ \E out \in cluster_points(points, num_clusters) :
             /\ clustered' = out
             /\ \/ /\ out.raised
                   /\ Reply(ErrorResponse(500, "Clustering failed"))
                \/ /\ ~out.raised
                   /\ pc' = "hough"
                   /\ UNCHANGED responses
    /\ UNCHANGED <<notReq, points, num_clusters, request, hough, lines_list>>

\* 4. detect_straight_walls_hough never returns None, so "lines is None" is
\* false and lines.tolist() runs; a Python list has no tolist
StageHough ==
    /\ pc = "hough"
    /\ stage_log' = Append(stage_log, "hough")
    /\ \/ /\ Reply(ErrorResponse(500, "Hough Transform failed"))
          /\ UNCHANGED <<hough, lines_list>>
       \/ \E found \in HoughResults :
             LET lines == detect_straight_walls_hough(found)
             IN  /\ hough' = found
                 /\ \/ /\ lines.kind = "list"
                       /\ Reply(ErrorResponse(500, "Hough Transform failed"))
                       /\ UNCHANGED lines_list
                    \/ /\ lines.kind = "ndarray"
                       /\ lines_list' = lines.rows
                       /\ pc' = "annotate"
                       /\ UNCHANGED responses
    /\ UNCHANGED <<notReq, clusterVars, request>>

\* 5. cvtColor, fit_line_to_clustered_points, cv2.line, cv2.imwrite
StageAnnotate ==
    /\ pc = "annotate"
    /\ stage_log' = Append(stage_log, "annotate")
    /\ \/ Reply(ErrorResponse(500, "Annotation failed"))
       \/ /\ pc' = "respond"
          /\ UNCHANGED responses
    /\ UNCHANGED <<notReq, clusterVars, request, hough, lines_list>>

\* 6. the lists as plain ints, and the success response
Respond ==
    /\ pc = "respond"
    /\ Reply([code |-> 200, json |-> TRUE, error |-> "",
              payload |-> [status |-> "success",
                           corners |-> points,
                           clusteredPoints |->
                               [i \in 1..Len(clustered.centers) |->
                                   <<IntOf(clustered.centers[i].x_num, clustered.centers[i].den),
                                     IntOf(clustered.centers[i].y_num, clustered.centers[i].den)>>],
                           lines |-> lines_list]])
    /\ UNCHANGED <<notReq, clusterVars, request, stage_log, hough, lines_list>>

NextRequest ==
    \/ CheckUpload
    \/ ParseParams
    \/ StageSkeletonize
    \/ StageDetectCorners
    \/ StageCluster
    \/ StageHough
    \/ StageAnnotate
    \/ Respond

SpecRequest == InitRequest /\ [][NextRequest]_vars

\* C3: when HoughLinesP finds no segment the request is not answered with
\* "Hough Transform failed": it goes on to the annotation stage, and a
\* success response carries an empty lines list.
C3_NoSegmentIsNoError ==
    pc = "responded" /\ hough.called /\ hough.is_none =>
        /\ responses[Len(responses)].error # "Hough Transform failed"
        /\ \E i \in 1..Len(stage_log) : stage_log[i] = "annotate"
        /\ (responses[Len(responses)].code = 200 =>
               responses[Len(responses)].payload.lines = <<>>)

StageOrder == <<"skeletonize", "detect_corners", "cluster", "hough", "annotate">>

StageError(stage) ==
    CASE stage = "skeletonize" -> "Skeletonization failed"
      [] stage = "detect_corners" -> "Corner detection failed"
      [] stage = "cluster" -> "Clustering failed"
      [] stage = "hough" -> "Hough Transform failed"
      [] OTHER -> "Annotation failed"

UploadRejected ==
    \/ ~request.has_image
    \/ request.filename = <<>>
    \/ ~allowed_file(request.filename)

\* the stages that have run are an initial part of the fixed order, and a
\* request is never answered twice
StagesInOrder ==
    /\ Len(stage_log) <= Len(StageOrder)
    /\ \A i \in 1..Len(stage_log) : stage_log[i] = StageOrder[i]
    /\ Len(responses) <= 1

\* a rejected upload is answered 400 before any stage
RejectedBeforeStages ==
    pc = "responded" /\ UploadRejected =>
        /\ responses[1].code = 400
        /\ stage_log = <<>>

\* a JSON 500 names the last stage that ran, a success follows all five
StageOutcome ==
    pc = "responded" /\ responses[1].json =>
        /\ responses[1].code = 500 =>
              /\ stage_log # <<>>
              /\ responses[1].error = StageError(stage_log[Len(stage_log)])
        /\ responses[1].code = 200 => stage_log = StageOrder
        /\ responses[1].code \in {200, 400, 500}
        /\ responses[1].code = 400 => UploadRejected

\* C11: every answered request has exactly one response and it is JSON: a
\* rejected upload gets a 400 and runs no stage; otherwise the stages run in
\* the fixed order, a 500 names the stage that raised and is the last stage
\* run, and a success comes only after all five stages.
C11_OneJsonResponse ==
    /\ StagesInOrder
    /\ RejectedBeforeStages
    /\ StageOutcome
    /\ pc = "responded" => Len(responses) = 1 /\ responses[1].json

\* ---------------------------------------- specification: detect_corners
InitCorners ==
    /\ pc = "detect"
    /\ skel \in Skeletons
    /\ min_distance \in 1..MaxDist
    /\ corners \in Candidates
    /\ important_points = <<>>
    /\ ClassifyIdle
    /\ SkeletonizeIdle
    /\ ClusterIdle
    /\ DrawIdle
    /\ RequestIdle

DetectCorners ==
    /\ pc = "detect"
    /\ important_points' = detect_corners(skel, corners, min_distance)
    /\ pc' = "detected"
    /\ UNCHANGED <<neighborhood, point_type, skel, min_distance, corners, skelVars,
                   clusterVars, drawVars, reqVars>>

NextCorners == DetectCorners

SpecCorners == InitCorners /\ [][NextCorners]_vars

\* ---- more vocabulary of the claims about detect_corners
\* the candidates the first loop keeps, in the selector's order
SparseKept ==
    LET Kept(c) == IsInterior(c) /\ TagAt(skel, c) # "none"
    IN  IF corners.is_none THEN <<>> ELSE SelectSeq(corners.pts, Kept)

CandSet == IF corners.is_none THEN {} ELSE {corners.pts[i] : i \in 1..Len(corners.pts)}

ResultSet == {important_points[i] : i \in 1..Len(important_points)}

\* One-pixel-wide L shapes strictly inside the image border: a bend, a
\* horizontal arm of la pixels and a vertical arm of lb pixels beyond it.
LShapes ==
    {[bend |-> <<bx, by>>,
      tipH |-> <<bx + sx * la, by>>,
      tipV |-> <<bx, by + sy * lb>>,
      la |-> la, lb |-> lb,
      arms |-> {<<bx + sx * i, by>> : i \in 0..la} \cup {<<bx, by + sy * j>> : j \in 0..lb}] :
        bx \in 1..(Width - 2), by \in 1..(Height - 2),
        sx \in {-1, 1}, sy \in {-1, 1},
        la \in 2..Width, lb \in 2..Height}

InteriorLShapes == {l \in LShapes : \A pt \in l.arms : IsInterior(pt)}

SkelIsL(l) == FgSet(skel) = {<<pt[2], pt[1]>> : pt \in l.arms}

ExactlyBendAndTips(l) ==
    /\ Len(important_points) = 3
    /\ ResultSet = {l.bend, l.tipH, l.tipV}
    /\ TagAt(skel, l.bend) = "corner"
    /\ TagAt(skel, l.tipH) = "endpoint"
    /\ TagAt(skel, l.tipV) = "endpoint"

\* C6 as stated: for a skeleton that holds only an isolated L shape,
\* detect_corners returns exactly the bend (corner) and the two arm tips
\* (endpoint), whichever candidates the sparse selector proposes.
C6_Original ==
    pc = "detected" =>
        \A l \in InteriorLShapes : SkelIsL(l) => ExactlyBendAndTips(l)

\* what the amended C6 asks of the selector and of min_distance
SelectorFitsL(l) ==
    /\ min_distance >= 2
    /\ l.bend \in CandSet
    /\ CandSet \cap l.arms \subseteq {l.bend, l.tipH, l.tipV}
    /\ l.tipH \in CandSet \/ l.la >= min_distance
    /\ l.tipV \in CandSet \/ l.lb >= min_distance

\* C6 amended: for an L strictly inside the border with arms of at least 2
\* pixels and min_distance >= 2, when the selector proposes the bend, proposes
\* no arm pixel other than the bend and the tips, and each tip is proposed or
\* lies at least min_distance from the bend, detect_corners returns exactly
\* the bend (corner) and the two tips (endpoint).
C6_LShape ==
    pc = "detected" =>
        \A l \in InteriorLShapes :
            SkelIsL(l) /\ SelectorFitsL(l) => ExactlyBendAndTips(l)

C6_Witness ==
    /\ pc = "detected"
    /\ \E l \in InteriorLShapes :
          /\ SkelIsL(l)
          /\ SelectorFitsL(l)
          /\ l.tipH \in CandSet
          /\ l.tipV \notin CandSet
          /\ ExactlyBendAndTips(l)

\* C7: the second loop accepts an interior foreground pixel exactly when it
\* is an endpoint or t_junction and no point accepted before it is within
\* min_distance in both x and y; so every point it adds is at Chebyshev
\* distance >= min_distance from every point before it in the result.
C7_ExhaustiveAcceptance ==
    pc = "detected" =>
        LET n == Len(SparseKept)
            r == important_points
            added == {r[i] : i \in (n + 1)..Len(r)}
            Before(pt) == {r[i] : i \in 1..n}
                          \cup {q \in added : ScannedBefore(q, pt)}
        IN  /\ n <= Len(r)
            /\ \A x \in 1..(Width - 2), y \in 1..(Height - 2) :
                  skel[<<y, x>>] = 255 =>
                    (<<x, y>> \in added <=>
                       /\ TagAt(skel, <<x, y>>) \in {"endpoint", "t_junction"}
                       /\ \A q \in Before(<<x, y>>) :
                             ~(Abs(x - q[1]) < min_distance /\ Abs(y - q[2]) < min_distance))
            /\ \A i \in (n + 1)..Len(r) : \A j \in 1..(i - 1) :
                  Chebyshev(r[i], r[j]) >= min_distance

\* the second loop accepted a point that is near an earlier point in exactly
\* one axis
C7_Witness ==
    /\ pc = "detected"
    /\ \E i \in (Len(SparseKept) + 1)..Len(important_points) : \E j \in 1..(i - 1) :
          /\ Abs(important_points[i][1] - important_points[j][1]) < min_distance
          /\ Abs(important_points[i][2] - important_points[j][2]) >= min_distance

\* C8: every returned point is strictly inside the border, a foreground pixel
\* and classified endpoint, corner or t_junction; a skeleton without
\* foreground gives the empty list.
C8_PointsAreFeatures ==
    pc = "detected" =>
        /\ \A i \in 1..Len(important_points) :
              LET pt == important_points[i]
              IN  /\ IsInterior(pt)
                  /\ skel[<<pt[2], pt[1]>>] = 255
                  /\ TagAt(skel, pt) \in {"endpoint", "corner", "t_junction"}
        /\ (FgSet(skel) = {} => important_points = <<>>)

\* points were returned although the selector also proposed a border pixel
\* and a pixel that is not a feature
C8_Witness ==
    /\ pc = "detected"
    /\ Len(important_points) >= 2
    /\ <<0, 0>> \in CandSet
    /\ \E c \in CandSet : IsInterior(c) /\ c \notin ResultSet

\* C9: the result is the kept candidates in selector order followed by the
\* points of the second loop in row-major order; the second loop adds only
\* endpoints and t_junctions, so corner-classified points come from the
\* selector alone, and with no candidates every point is an endpoint or
\* t_junction.
C9_ResultOrder ==
    pc = "detected" =>
        LET n == Len(SparseKept)
            r == important_points
        IN  /\ n <= Len(r)
            /\ SubSeq(r, 1, n) = SparseKept
            /\ \A i \in (n + 1)..Len(r) :
                  /\ TagAt(skel, r[i]) \in {"endpoint", "t_junction"}
                  /\ \A j \in (n + 1)..(i - 1) : ScannedBefore(r[j], r[i])
            /\ \A i \in 1..Len(r) : TagAt(skel, r[i]) = "corner" => i <= n
            /\ (CandSet = {} =>
                  \A i \in 1..Len(r) : TagAt(skel, r[i]) \in {"endpoint", "t_junction"})

\* two kept candidates, one of them a corner, followed by two scan points
C9_Witness ==
    /\ pc = "detected"
    /\ Len(SparseKept) = 2
    /\ Len(important_points) >= 4
    /\ \E i \in 1..2 : TagAt(skel, important_points[i]) = "corner"

====
